---- MODULE Spec2Model ----
(***************************************************************************)
(* Model of streamlit_app.py: the PurpleAir sensor status checker.         *)
(*                                                                         *)
(* State: the three st.session_state entries (df, df_map, view_state),    *)
(* what the current run has put on the page (table, deck, raw, exc), and   *)
(* history variables holding the inputs and the records list of the        *)
(* latest do_refresh.  Operations: the two button callbacks (do_refresh,   *)
(* reset_view) and the script body that Streamlit runs after a callback    *)
(* returns, or on a plain rerun.                                           *)
(*                                                                         *)
(* Conventions.                                                            *)
(*  - A Python dict is a function from key strings to values.              *)
(*  - A DataFrame is [columns |-> set of names, rows |-> sequence of       *)
(*    functions over columns]; a missing cell holds NA (NaN).  Column      *)
(*    order and the row index labels are not modelled.                     *)
(*  - Text is a TLA+ string; the three emoji that start the status texts   *)
(*    are written CROSS, WARN and CHECK.                                   *)
(*  - Wall-clock time is in whole seconds.                                 *)
(*  - Of the twelve requested fields the model keeps name, last_seen,      *)
(*    confidence, latitude and longitude; the others are passed through    *)
(*    by the program without being read.                                   *)
(***************************************************************************)
EXTENDS Integers, Sequences, FiniteSets, TLC

VARIABLES df, df_map, view_state, pc, lastOp, responses, records,
          table, deck, raw, exc, call

vars == <<df, df_map, view_state, pc, lastOp, responses, records,
          table, deck, raw, exc, call>>

(* Number of configured sensors the model iterates over (the program has 26). *)
NumSensors == 2

SENSOR_INDICES ==
    <<270898, 279253, 279251, 133435, 155503, 155501, 155521, 155533,
      155537, 155567, 155569, 155591, 155595, 155597, 155601, 155607,
      155605, 155613, 155629, 155639, 155673, 155679, 155691, 162991,
      163031, 163169>>

(* The sensors one refresh iterates over: the first NumSensors of the list. *)
Sensors == SubSeq(SENSOR_INDICES, 1, NumSensors)

STALE_THRESHOLD_SECONDS == 600
LOW_CONFIDENCE_THRESHOLD == 75

STATUS_COLORS_yellow_offline ==
    [online         |-> <<0, 255, 0, 160>>,
     low_confidence |-> <<255, 255, 0, 160>>,
     offline        |-> <<255, 255, 0, 160>>]

STATUS_COLORS ==
    [online         |-> <<0, 255, 0, 160>>,
     low_confidence |-> <<255, 255, 0, 160>>,
     offline        |-> <<255, 0, 0, 160>>]

(* Stand-ins for the emoji prefixes of the status texts. *)
CROSS == "[X]"
WARN  == "[!]"
CHECK == "[OK]"

(* NaN, the value pandas gives a cell whose record has no such key. *)
NA == -1

(* ---------------------------------------------------------------------- *)
(* Python helpers                                                          *)
(* ---------------------------------------------------------------------- *)

(* dict.get(k, default) *)
Get(d, k, default) == IF k \in DOMAIN d THEN d[k] ELSE default

(* str.startswith *)
startswith(s, p) == Len(s) >= Len(p) /\ SubSeq(s, 1, Len(p)) = p

(* `sub in s` for strings *)
Contains(s, sub) ==
    \E i \in 1..(Len(s) - Len(sub) + 1) : SubSeq(s, i, i + Len(sub) - 1) = sub

(* ---------------------------------------------------------------------- *)
(* get_sensor_data                                                         *)
(* ---------------------------------------------------------------------- *)

(* What requests.get / raise_for_status / resp.json() gave for one sensor:  *)
(*   kind "ok"        : a 2xx answer whose JSON 'sensor' object is body,    *)
(*   kind "http"      : raise_for_status raised HTTPError with status code, *)
(*   kind "transport" : another RequestException, no response.              *)
OkResponse(body)    == [kind |-> "ok", code |-> 200, body |-> body]
HttpError(code)     == [kind |-> "http", code |-> code, body |-> <<>>]
TransportError      == [kind |-> "transport", code |-> 0, body |-> <<>>]

IsStale_ge(age_sec) == age_sec >= STALE_THRESHOLD_SECONDS

IsStale(age_sec) == age_sec > STALE_THRESHOLD_SECONDS

IsLowConfidence(conf) == conf < LOW_CONFIDENCE_THRESHOLD

http_error_msg_no_404(code) ==
    LET msg == CROSS \o " HTTP " \o ToString(code)
    IN  IF code = 403 THEN msg \o " (Invalid API Key?)" ELSE msg

http_error_msg(code) ==
    LET msg  == CROSS \o " HTTP " \o ToString(code)
        msg1 == IF code = 403 THEN msg \o " (Invalid API Key?)" ELSE msg
    IN  IF code = 404 THEN msg1 \o " (Not Found)" ELSE msg1

get_sensor_data(sensor_index, resp, now) ==
    IF resp.kind = "ok" THEN
        LET data      == ("sensor_index" :> sensor_index) @@ resp.body
            last_seen == Get(data, "last_seen", 0)
            age_sec   == now - last_seen
            conf      == Get(data, "confidence", 0)
            hrs       == age_sec \div 3600
        IN  IF IsStale(age_sec) THEN
                ("status" :> (CROSS \o " Offline (" \o ToString(hrs) \o " hr ago)"))
                @@ ("color" :> STATUS_COLORS.offline) @@ data
            ELSE IF IsLowConfidence(conf) THEN
                ("status" :> (WARN \o " Low Confidence (" \o ToString(conf) \o "%)"))
                @@ ("color" :> STATUS_COLORS.low_confidence) @@ data
            ELSE
                ("status" :> (CHECK \o " Online"))
                @@ ("color" :> STATUS_COLORS.online) @@ data
    ELSE IF resp.kind = "http" THEN
        [sensor_index |-> sensor_index, status |-> http_error_msg(resp.code),
         name |-> "N/A", color |-> STATUS_COLORS.offline]
    ELSE
        [sensor_index |-> sensor_index, status |-> CROSS \o " Request Error",
         name |-> "N/A", color |-> STATUS_COLORS.offline]

(* ---------------------------------------------------------------------- *)
(* pandas                                                                  *)
(* ---------------------------------------------------------------------- *)

(* pd.DataFrame() *)
EmptyFrame == [columns |-> {}, rows |-> <<>>]

(* pd.DataFrame(recs): one row per record, one column per key of any record *)
DataFrame(recs) ==
    LET cols == UNION {DOMAIN recs[i] : i \in 1..Len(recs)}
    IN  [columns |-> cols,
         rows    |-> [i \in 1..Len(recs) |-> [c \in cols |-> Get(recs[i], c, NA)]]]

(* DataFrame.empty *)
empty(f) == f.columns = {} \/ f.rows = <<>>

(* dropna(subset=...) raises KeyError unless every subset column exists *)
dropna_raises(f, subset) == ~(subset \subseteq f.columns)

NoNA(row, subset) == \A c \in subset : row[c] # NA

dropna(f, subset) ==
    [columns |-> f.columns,
     rows    |-> SelectSeq(f.rows, LAMBDA row : NoNA(row, subset))]

(* ---------------------------------------------------------------------- *)
(* Inputs of the session model                                             *)
(* ---------------------------------------------------------------------- *)

(* JSON 'sensor' objects the API answers with.  A field is either there    *)
(* with a number or left out.                                              *)
BodyOnline  == [name |-> "s", last_seen |-> 1000000000, confidence |-> 75,
                latitude |-> 38, longitude |-> -121]
BodyLowConf == [name |-> "s", last_seen |-> 1000000000, confidence |-> 74,
                latitude |-> 38, longitude |-> -121]
BodyLatOnly == [name |-> "s", last_seen |-> 999992800, confidence |-> 75,
                latitude |-> 38]

Responses ==
    {OkResponse(BodyOnline), OkResponse(BodyLowConf), OkResponse(BodyLatOnly),
     HttpError(403), TransportError}

(* Values datetime.now(timezone.utc).timestamp() takes during a session *)
Times == {1000000600}

(* ---------------------------------------------------------------------- *)
(* Session state and callbacks                                             *)
(* ---------------------------------------------------------------------- *)

(* Decimal literals are kept as text. *)
DEFAULT_VIEW ==
    [latitude |-> "37.9577", longitude |-> "-121.2908", zoom |-> 10, pitch |-> 0]

NoException == "none"

Init ==
    /\ df = EmptyFrame
    /\ df_map = EmptyFrame
    /\ view_state = DEFAULT_VIEW
    /\ pc = "idle"
    /\ lastOp = "init"
    /\ responses = <<>>
    /\ records = <<>>
    /\ table = <<>>
    /\ deck = <<>>
    /\ raw = <<>>
    /\ exc = NoException
    /\ call = <<>>

(* The list comprehension of do_refresh: one get_sensor_data per index,    *)
(* in list order; rs[i] and ts[i] are the answer and the clock reading of  *)
(* the i-th call.                                                          *)
fetch_all_skip_failed(rs, ts) ==
    LET all == [i \in 1..NumSensors |-> get_sensor_data(Sensors[i], rs[i], ts[i])]
        ok  == [i \in 1..NumSensors |-> rs[i].kind = "ok"]
        idx == SelectSeq([i \in 1..NumSensors |-> i], LAMBDA i : ok[i])
    IN  [k \in 1..Len(idx) |-> all[idx[k]]]

fetch_all(rs, ts) ==
    [i \in 1..NumSensors |-> get_sensor_data(Sensors[i], rs[i], ts[i])]

MAP_SUBSET_lat_only == {"latitude"}

(* subset=["latitude","longitude"] *)
MAP_SUBSET == {"latitude", "longitude"}

(* Button "Refresh Status".  df is assigned before dropna runs, so when    *)
(* dropna raises KeyError the new df stays and df_map keeps its old value; *)
(* the exception ends the run before the script body.                      *)
do_refresh ==
    /\ pc = "idle"
    /\ \E rs \in [1..NumSensors -> Responses], ts \in [1..NumSensors -> Times] :
         LET recs == fetch_all(rs, ts)
             d    == DataFrame(recs)
         IN  /\ responses' = rs
             /\ records' = recs
             /\ df' = d
             /\ IF dropna_raises(d, MAP_SUBSET)
                THEN /\ UNCHANGED df_map
                     /\ exc' = "KeyError"
                     /\ pc' = "idle"
                     /\ table' = <<>>
                     /\ deck' = <<>>
                     /\ raw' = <<>>
                ELSE /\ df_map' = dropna(d, MAP_SUBSET)
                     /\ exc' = NoException
                     /\ pc' = "rerun"
                     /\ table' = <<>>
                     /\ deck' = <<>>
                     /\ raw' = <<>>
    /\ lastOp' = "do_refresh"
    /\ UNCHANGED <<view_state, call>>

reset_view_clears_map ==
    /\ pc = "idle"
    /\ view_state' = DEFAULT_VIEW
    /\ df_map' = EmptyFrame
    /\ pc' = "rerun"
    /\ lastOp' = "reset_view"
    /\ exc' = NoException
    /\ table' = <<>>
    /\ deck' = <<>>
    /\ raw' = <<>>
    /\ UNCHANGED <<df, responses, records, call>>

(* Button "Reset Map View" *)
reset_view ==
    /\ pc = "idle"
    /\ view_state' = DEFAULT_VIEW
    /\ pc' = "rerun"
    /\ lastOp' = "reset_view"
    /\ exc' = NoException
    /\ table' = <<>>
    /\ deck' = <<>>
    /\ raw' = <<>>
    /\ UNCHANGED <<df, df_map, responses, records, call>>

(* ---------------------------------------------------------------------- *)
(* Script body: table, map, raw-data panel                                 *)
(* ---------------------------------------------------------------------- *)

status_priority_swapped(s) ==
    IF startswith(s, CROSS) THEN 0
    ELSE IF startswith(s, WARN) THEN 2
    ELSE IF startswith(s, CHECK) THEN 1
    ELSE 3

status_priority(s) ==
    IF startswith(s, CROSS) THEN 0
    ELSE IF startswith(s, WARN) THEN 1
    ELSE IF startswith(s, CHECK) THEN 2
    ELSE 3

(* The lambda of line 129.  The cell value (now_ts - x)/60 is kept exact   *)
(* as its numerator over the fixed denominator 60.                         *)
minutes_since_seen(now_ts, x) == IF x # NA THEN now_ts - x ELSE NA

(* df[col] = cells: adds the column to the frame object, or overwrites it *)
SetColumn(f, col, cells) ==
    [columns |-> f.columns \cup {col},
     rows    |-> [i \in 1..Len(f.rows) |->
                     [c \in f.columns \cup {col} |->
                         IF c = col THEN cells[i] ELSE f.rows[i][c]]]]

(* drop(columns=col) *)
DropColumn(f, col) ==
    [columns |-> f.columns \ {col},
     rows    |-> [i \in 1..Len(f.rows) |->
                     [c \in f.columns \ {col} |-> f.rows[i][c]]]]

(* sort_values(col) with the default sort kind, which is not stable: any   *)
(* arrangement of the rows in which col is non-decreasing.                 *)
sort_values(f, col) ==
    LET n == Len(f.rows)
    IN  {[columns |-> f.columns, rows |-> [i \in 1..n |-> f.rows[p[i]]]] :
            p \in {q \in [1..n -> 1..n] :
                     /\ \A i, j \in 1..n : i # j => q[i] # q[j]
                     /\ \A i, j \in 1..n :
                          i < j => f.rows[q[i]][col] <= f.rows[q[j]][col]}}

display_cols ==
    [c \in {"sensor_index", "status", "name", "minutes_since_seen", "confidence",
            "rssi", "uptime", "pm2.5", "pm2.5_60minute", "temperature_a",
            "model", "latitude", "longitude"} |->
        CASE c = "sensor_index"       -> "Sensor ID"
          [] c = "status"             -> "Status"
          [] c = "name"               -> "Name"
          [] c = "minutes_since_seen" -> "Mins Ago"
          [] c = "confidence"         -> "Confidence (%)"
          [] c = "rssi"               -> "WiFi (RSSI)"
          [] c = "uptime"             -> "Uptime (min)"
          [] c = "pm2.5"              -> "PM2.5"
          [] c = "pm2.5_60minute"     -> "PM2.5 (60m avg)"
          [] c = "temperature_a"      -> "Temp (°F)"
          [] c = "model"              -> "Model"
          [] c = "latitude"           -> "Lat"
          [] c = "longitude"          -> "Lon"]

(* rename(columns=display_cols): a column not in the mapping keeps its name *)
rename(f, mapping) ==
    LET new(c) == IF c \in DOMAIN mapping THEN mapping[c] ELSE c
    IN  [columns |-> {new(c) : c \in f.columns},
         rows    |-> [i \in 1..Len(f.rows) |->
                         [d \in {new(c) : c \in f.columns} |->
                             f.rows[i][CHOOSE c \in f.columns : new(c) = d]]]]

order(f) ==
    {"Status", "Sensor ID", "Name", "Mins Ago", "Confidence (%)", "WiFi (RSSI)",
     "Uptime (min)", "PM2.5", "PM2.5 (60m avg)", "Temp (°F)", "Model", "Lat",
     "Lon"} \cap f.columns

(* df_disp[order] *)
Select(f, cols) ==
    [columns |-> cols,
     rows    |-> [i \in 1..Len(f.rows) |-> [c \in cols |-> f.rows[i][c]]]]

(* One run of the script body below the buttons.  df names the DataFrame   *)
(* object held in st.session_state, so the two column assignments change   *)
(* the stored frame; sort_values and drop return new frames.  A frame      *)
(* without a last_seen column makes df['last_seen'] raise KeyError, which  *)
(* ends the run before anything is drawn.                                  *)
script ==
    /\ pc' = "idle"
    /\ IF empty(df) THEN
           /\ UNCHANGED df
           /\ table' = <<>>
           /\ deck' = <<>>
           /\ raw' = <<df.rows>>
           /\ exc' = NoException
       ELSE IF "last_seen" \notin df.columns THEN
           /\ UNCHANGED df
           /\ table' = <<>>
           /\ deck' = <<>>
           /\ raw' = <<>>
           /\ exc' = "KeyError"
       ELSE
           \E now_ts \in Times :
             LET df1 == SetColumn(df, "minutes_since_seen",
                                  [i \in 1..Len(df.rows) |->
                                      minutes_since_seen(now_ts, df.rows[i]["last_seen"])])
                 df2 == SetColumn(df1, "__priority",
                                  [i \in 1..Len(df1.rows) |->
                                      status_priority(df1.rows[i]["status"])])
             IN  /\ df' = df2
                 /\ \E sorted \in sort_values(df2, "__priority") :
                      LET df_disp == rename(DropColumn(sorted, "__priority"), display_cols)
                      IN  table' = <<Select(df_disp, order(df_disp)).rows>>
                 /\ deck' = IF ~empty(df_map)
                            THEN <<[data |-> df_map.rows,
                                    initial_view_state |-> view_state]>>
                            ELSE <<>>
                 /\ raw' = <<df2.rows>>
                 /\ exc' = NoException
    /\ UNCHANGED <<df_map, view_state, lastOp, responses, records, call>>

Next == do_refresh \/ reset_view \/ script

Spec == Init /\ [][Next]_vars

(* ---------------------------------------------------------------------- *)
(* Single calls of get_sensor_data over a wider range of answers           *)
(* ---------------------------------------------------------------------- *)

(* 'sensor' objects with last_seen and confidence each present or left out *)
FetchBodies ==
    {ls @@ cf @@ [name |-> "s"] :
        ls \in {<<>>, [last_seen |-> 1000000000]},
        cf \in {<<>>} \cup {[confidence |-> c] : c \in {0, 74, 75, 100}}}

FetchResponses ==
    {OkResponse(b) : b \in FetchBodies}
    \cup {HttpError(c) : c \in {400, 403, 404, 429, 500}}
    \cup {TransportError}

(* Clock readings 100 s, 600 s, 601 s and 7200 s after last_seen *)
FetchTimes == {1000000100, 1000000600, 1000000601, 1000007200}

fetch ==
    /\ \E i \in 1..NumSensors, r \in FetchResponses, t \in FetchTimes :
         call' = <<[sensor_index |-> Sensors[i], resp |-> r, now |-> t,
                    result |-> get_sensor_data(Sensors[i], r, t)]>>
    /\ UNCHANGED <<df, df_map, view_state, pc, lastOp, responses, records,
                   table, deck, raw, exc>>

NextFetch == fetch

SpecFetch == Init /\ [][NextFetch]_vars

(* ---------------------------------------------------------------------- *)
(* Properties                                                              *)
(* ---------------------------------------------------------------------- *)

(* Health category read off the text of a status label *)
IsOfflineLabel(s)  == Contains(s, "Offline")
IsErrorLabel(s)    == Contains(s, "HTTP") \/ Contains(s, "Request Error")
IsLowConfLabel(s)  == Contains(s, "Low Confidence")
IsOnlineLabel(s)   == Contains(s, "Online")

Rank(s) ==
    IF IsOfflineLabel(s) \/ IsErrorLabel(s) THEN 0
    ELSE IF IsLowConfLabel(s) THEN 1
    ELSE IF IsOnlineLabel(s) THEN 2
    ELSE 3

Range(seq) == {seq[i] : i \in 1..Len(seq)}

(* A refresh has run in this session *)
Refreshed == responses # <<>>

(* C1: a successfully fetched record that carries last_seen is Offline     *)
(* when now - last_seen > 600, else LowConfidence when its confidence      *)
(* (0 when left out) is below 75, else Online; first match wins.           *)
C1_StatusRule ==
    (call # <<>> /\ call[1].resp.kind = "ok"
       /\ "last_seen" \in DOMAIN call[1].resp.body) =>
        LET body == call[1].resp.body
            age  == call[1].now - body["last_seen"]
            conf == IF "confidence" \in DOMAIN body THEN body["confidence"] ELSE 0
            st   == call[1].result["status"]
        IN  /\ IsOfflineLabel(st) <=> age > 600
            /\ IsLowConfLabel(st) <=> (age <= 600 /\ conf < 75)
            /\ IsOnlineLabel(st) <=> (age <= 600 /\ conf >= 75)
            /\ ~IsErrorLabel(st)

(* C1 witness: age exactly 600 with confidence exactly 75 came out Online *)
C1_Witness ==
    /\ call # <<>>
    /\ call[1].resp.kind = "ok"
    /\ "last_seen" \in DOMAIN call[1].resp.body
    /\ "confidence" \in DOMAIN call[1].resp.body
    /\ call[1].now - call[1].resp.body["last_seen"] = 600
    /\ call[1].resp.body["confidence"] = 75
    /\ IsOnlineLabel(call[1].result["status"])

(* C2: every returned record has a status and a color, and the color is    *)
(* the one of the status's category: green for Online, yellow for          *)
(* LowConfidence, red for Offline and for every fetch failure.             *)
C2_ColorByCategory ==
    call # <<>> =>
        LET res == call[1].result
        IN  /\ {"status", "color"} \subseteq DOMAIN res
            /\ Rank(res["status"]) \in {0, 1, 2}
            /\ Rank(res["status"]) = 0 => res["color"] = <<255, 0, 0, 160>>
            /\ Rank(res["status"]) = 1 => res["color"] = <<255, 255, 0, 160>>
            /\ Rank(res["status"]) = 2 => res["color"] = <<0, 255, 0, 160>>
            /\ call[1].resp.kind # "ok" => res["color"] = <<255, 0, 0, 160>>

(* C2 witness: a transport failure came back red *)
C2_Witness ==
    /\ call # <<>>
    /\ call[1].resp.kind = "transport"
    /\ call[1].result["color"] = <<255, 0, 0, 160>>

(* C3: the records collected by do_refresh hold exactly one record per     *)
(* configured sensor, in the configured order, whatever mix of successes,  *)
(* HTTP errors and transport failures the calls met; so does the stored    *)
(* frame.                                                                  *)
C3_OneRecordPerSensor ==
    Refreshed =>
        /\ Len(records) = NumSensors
        /\ \A i \in 1..Len(records) : records[i]["sensor_index"] = Sensors[i]
        /\ Len(df.rows) = NumSensors
        /\ \A i \in 1..Len(df.rows) : df.rows[i]["sensor_index"] = Sensors[i]

(* C3 witness: a batch mixing a transport failure and a success was        *)
(* collected in full                                                       *)
C3_Witness ==
    /\ lastOp = "do_refresh"
    /\ \E i, j \in 1..NumSensors :
         /\ responses[i].kind = "transport"
         /\ responses[j].kind = "ok"
    /\ Len(records) = NumSensors

(* The columns a refresh stores, without those the script body adds *)
FetchedColumns(f) == f.columns \ {"minutes_since_seen", "__priority"}

(* The rows of the table set that carry both coordinates *)
Located(f) ==
    IF {"latitude", "longitude"} \subseteq f.columns
    THEN SelectSeq(Select(f, FetchedColumns(f)).rows,
                   LAMBDA r : r["latitude"] # NA /\ r["longitude"] # NA)
    ELSE <<>>

(* C4: the table set and the map set always come from the same refresh:    *)
(* the map set is the located part of the table set.                       *)
C4_PublishedAtomically == df_map.rows = Located(df)

(* C5: when every sensor of the latest refresh failed, no exception is     *)
(* raised and, once the run is over, the table shows one red row per       *)
(* sensor.                                                                 *)
C5_AllFailedNotFatal ==
    (lastOp = "do_refresh" /\ \A i \in 1..NumSensors : responses[i].kind # "ok") =>
        /\ exc = NoException
        /\ pc = "idle" =>
             /\ table # <<>>
             /\ Len(table[1]) = NumSensors

(* C6: the label of a failed fetch tells the failure: 403 carries          *)
(* "Invalid API Key", 404 carries "Not Found", every HTTP error carries    *)
(* its status code, a transport failure has the request-error label, and   *)
(* no label of one case carries the mark of another.                       *)
C6_FailureLabels ==
    (call # <<>> /\ call[1].resp.kind # "ok") =>
        LET st   == call[1].result["status"]
            code == call[1].resp.code
            kind == call[1].resp.kind
        IN  /\ Contains(st, "Invalid API Key") <=> (kind = "http" /\ code = 403)
            /\ Contains(st, "Not Found") <=> (kind = "http" /\ code = 404)
            /\ Contains(st, "HTTP " \o ToString(code)) <=> kind = "http"
            /\ Contains(st, "Request Error") <=> kind = "transport"
            /\ kind = "transport" => ~Contains(st, "HTTP")

(* C6 witness: a 404 answer was labelled not found *)
C6_Witness ==
    /\ call # <<>>
    /\ call[1].resp.kind = "http"
    /\ call[1].resp.code = 404
    /\ Contains(call[1].result["status"], "(Not Found)")

(* C7: in the displayed table every Offline or fetch-error row comes       *)
(* before every LowConfidence row and every LowConfidence row before       *)
(* every Online row, and every status of the batch has one of the three    *)
(* ranks.                                                                  *)
C7_SeverityOrder ==
    /\ \A i \in 1..Len(records) :
         /\ Rank(records[i]["status"]) \in {0, 1, 2}
         /\ status_priority(records[i]["status"]) \in {0, 1, 2}
    /\ table # <<>> =>
         \A i, j \in 1..Len(table[1]) :
            i < j => Rank(table[1][i]["Status"]) <= Rank(table[1][j]["Status"])

(* C7 witness: a batch whose first record is Online is shown with an       *)
(* Offline or fetch-error row on top and the Online row below it           *)
C7_Witness ==
    /\ table # <<>>
    /\ Len(table[1]) = NumSensors
    /\ Rank(records[1]["status"]) = 2
    /\ Rank(table[1][1]["Status"]) = 0
    /\ \E i \in 1..Len(table[1]) : Rank(table[1][i]["Status"]) = 2

(* The row a record gives under a set of columns *)
RowOf(rec, cols) == [c \in cols |-> Get(rec, c, NA)]

(* C8: after a refresh every record of the batch is in the table set, and  *)
(* is in the map set exactly when it has both latitude and longitude.      *)
C8_MapSetMembership ==
    Refreshed =>
        \A i \in 1..Len(records) :
            LET rec == records[i]
            IN  /\ RowOf(rec, FetchedColumns(df))
                      \in Range(Select(df, FetchedColumns(df)).rows)
                /\ RowOf(rec, df_map.columns) \in Range(df_map.rows)
                      <=> {"latitude", "longitude"} \subseteq DOMAIN rec

(* C8 witness: a refresh stored a batch holding a record with latitude     *)
(* only and a record with both coordinates                                 *)
C8_Witness ==
    /\ lastOp = "do_refresh"
    /\ pc = "rerun"
    /\ exc = NoException
    /\ \E i, j \in 1..Len(records) :
         /\ "latitude" \in DOMAIN records[i]
         /\ "longitude" \notin DOMAIN records[i]
         /\ {"latitude", "longitude"} \subseteq DOMAIN records[j]
    /\ Len(df_map.rows) < Len(df.rows)
    /\ df_map.rows # <<>>

(* C9: the stored result set stays what the refresh produced, and the      *)
(* raw-data panel shows exactly those records.                             *)
C9_ResultSetUnmodified ==
    Refreshed =>
        /\ df = DataFrame(records)
        /\ raw # <<>> => raw[1] = DataFrame(records).rows

====
